---- MODULE Spec2Model ----
(***************************************************************************)
(* Fixed-point model of parasol/gym/basic/pendulum.py: the GymPendulum     *)
(* environment (step, reset, _get_obs), angle_normalize and                *)
(* Pendulum.cost_fn.                                                       *)
(*                                                                         *)
(* Numbers are integers on grids:                                          *)
(*   angles      1/ANGLE  rad   (np.pi is Pi grid steps, a turn is TwoPi)  *)
(*   velocities  1/SPEED  rad/s                                            *)
(*   torques     1/TORQUE                                                  *)
(*   sin, cos    1/TRIG                                                    *)
(*   costs       1/COST                                                    *)
(* Every floating-point operation of the source is the same operation on   *)
(* the grid, rounded to the nearest grid value.                            *)
(***************************************************************************)
EXTENDS Integers, Sequences, FiniteSets, TLC

VARIABLES
  image,           \* config: observations are rendered frames
  sliding_window,  \* config: number of earlier frames in an observation
  state,           \* self.state = <<th, thdot>>, None before the first reset
  last_u,          \* self.last_u
  prev_img,        \* self._prev_img
  nrender,         \* number of frames the viewer has rendered
  hist,            \* the frames rendered since the most recent reset, oldest first
  pre,             \* self.state on entry to the last step, None after a reset
  ret              \* the last call, its argument and what it returned

vars == <<image, sliding_window, state, last_u, prev_img, nrender, hist, pre, ret>>

(***************************************************************************)
(* Grids and bounds                                                        *)
(***************************************************************************)
ANGLE == 100
SPEED == 5
TORQUE == 2
TRIG == 10000
COST == 100000
\* np.pi on the angle grid, and in units of 1/TRIG rad
Pi == 314
PiRad == 31416
TwoPi == 2 * Pi

\* the stored angle is unwrapped; steps that would leave this range are not taken
MaxTheta == 650
\* largest magnitude of a torque passed to step, in whole units
MaxInput == 3
\* number of frames the viewer renders in an image-mode run
MaxFrames == 6
\* largest sliding_window of an image-mode configuration
MaxWindow == 2

Abs(a) == IF a < 0 THEN -a ELSE a

\* a / b rounded to the nearest integer, halves away from zero (b > 0)
RoundDiv(a, b) ==
  IF a >= 0 THEN (2 * a + b) \div (2 * b) ELSE -((2 * (-a) + b) \div (2 * b))

\* the torques passed to step: inside and beyond the action space
Torques == {-MaxInput * TORQUE, 0, 1, MaxInput * TORQUE}

(***************************************************************************)
(* numpy functions                                                         *)
(***************************************************************************)
\* np.clip
Clip(x, lo, hi) == IF x < lo THEN lo ELSE IF x > hi THEN hi ELSE x

\* sin on the first quadrant, q in 0..Pi/2 grid steps: Taylor series to t^7
SinQ(q) ==
  LET t  == (q * PiRad) \div Pi
      t2 == (t * t) \div TRIG
      a  == TRIG - t2 \div 42
      b  == TRIG - ((t2 * a) \div TRIG) \div 20
      c  == TRIG - ((t2 * b) \div TRIG) \div 6
  IN (t * c) \div TRIG

\* sin on one turn, r in 0..TwoPi-1, by the symmetries of the sine
SinR(r) ==
  LET h == IF r >= Pi THEN r - Pi ELSE r
      q == IF 2 * h > Pi THEN Pi - h ELSE h
  IN IF r >= Pi THEN -SinQ(q) ELSE SinQ(q)

SinTable == [r \in 0..(TwoPi - 1) |-> SinR(r)]

\* np.sin
Sin(th) == SinTable[th % TwoPi]

\* np.cos
Cos(th) == Sin(th + Pi \div 2)

\* arctan on 0..1 (z in 1/TRIG), result in 1/TRIG rad: odd polynomial to z^9
AtanQ(z) ==
  LET z2 == (z * z) \div TRIG
      p4 == -851 + (208 * z2) \div TRIG
      p3 == 1801 + (p4 * z2) \div TRIG
      p2 == -3303 + (p3 * z2) \div TRIG
      p1 == 9999 + (p2 * z2) \div TRIG
  IN (z * p1) \div TRIG

\* np.arctan2(y, x): an angle in (-Pi, Pi]
Arctan2(y, x) ==
  LET ay == Abs(y)
      ax == Abs(x)
      swap == ay > ax
      mx == IF swap THEN ay ELSE ax
      mn == IF swap THEN ax ELSE ay
      r  == IF mx = 0 THEN 0 ELSE AtanQ((mn * TRIG) \div mx)
      a0 == RoundDiv(r * Pi, PiRad)
      a1 == IF swap THEN Pi \div 2 - a0 ELSE a0
      a2 == IF x < 0 THEN Pi - a1 ELSE a1
  IN IF y < 0 THEN -a2 ELSE a2

(***************************************************************************)
(* GymPendulum                                                             *)
(***************************************************************************)
max_speed == 8 * SPEED
max_torque == 2 * TORQUE
\* dt = .05 = 1 / DtInv
DtInv == 20

\* Python's None, and an attribute that is not assigned yet
None == <<>>

\* variant: the normalization into (-pi, pi]
angle_normalize_upper(x) == Pi - ((Pi - x) % TwoPi)

angle_normalize(x) == ((x + Pi) % TwoPi) - Pi

\* weights of the three cost terms in 1/COST, for grid arguments
ThCost == COST \div (ANGLE * ANGLE)
ThdotCost == COST \div (10 * SPEED * SPEED)
UCost == COST \div (1000 * TORQUE * TORQUE)

\* variant: the torque is used as it is passed
StepTorqueRaw(u0) == u0

\* step: u = np.clip(u, -self.max_torque, self.max_torque)[0]
StepTorque(u0) == Clip(u0, -max_torque, max_torque)

\* step: costs = angle_normalize(th)**2 + .1*thdot**2 + .001*(u**2)
Costs(th, thdot, u) ==
  ThCost * angle_normalize(th) * angle_normalize(th)
    + ThdotCost * thdot * thdot + UCost * u * u

\* step: newthdot = thdot + (-3*g/(2*l) * np.sin(th + np.pi) + 3./(m*l**2)*u) * dt
NewThdot(th, thdot, u) ==
  thdot + RoundDiv((-15 * Sin(th + Pi) * TORQUE + 3 * u * TRIG) * SPEED,
                   TRIG * TORQUE * DtInv)

\* step: newth = th + newthdot*dt
NewTh(th, newthdot) == th + RoundDiv(newthdot * ANGLE, SPEED * DtInv)

\* variant: the new velocity is stored without the clip
StepStateNoClip(th, thdot, u) ==
  LET newthdot == NewThdot(th, thdot, u)
  IN <<NewTh(th, newthdot), newthdot>>

\* variant: the new velocity is clipped before the angle is advanced
StepStateClipFirst(th, thdot, u) ==
  LET newthdot == Clip(NewThdot(th, thdot, u), -max_speed, max_speed)
  IN <<NewTh(th, newthdot), newthdot>>

\* step: the state it stores, for the clipped torque u
StepState(th, thdot, u) ==
  LET newthdot == NewThdot(th, thdot, u)
      newth == NewTh(th, newthdot)
  IN <<newth, Clip(newthdot, -max_speed, max_speed)>>

\* variant: the cost is taken on the state the step moves to
StepRewardAfter(th, thdot, u) ==
  -Costs(StepState(th, thdot, u)[1], StepState(th, thdot, u)[2], u)

\* step: the reward it returns, for the clipped torque u
StepReward(th, thdot, u) == -Costs(th, thdot, u)

\* the grid values of np_random.uniform(low=-high, high=high) for high = 0.01
Uniform(scale) == {d \in -1..1 : 100 * Abs(d) <= scale}

\* variant: high = 0.1
ResetStatesWide == {<<Pi + d, 0>> : d \in -10..10}

\* reset: self.state = np_random.uniform(low=-high, high=high) + [np.pi, 0]
ResetStates == {<<Pi + d, e>> : d \in Uniform(ANGLE), e \in Uniform(SPEED)}

\* variant: reset leaves the frame history as it is
ResetPrevKeep(prev, k) == prev

\* reset: if self.sliding_window: self._prev_img = None
ResetPrev(prev, k) == IF k # 0 THEN None ELSE prev

\* render(mode='rgb_array'): the id-th frame the viewer renders, showing the pole
Render(st, id) == [id |-> id, rot |-> st[1] + Pi \div 2]

\* _get_obs, image branch: obs = [img] + self._prev_img
ObsFrames(img, prev, k) ==
  IF k # 0
  THEN <<img>> \o (IF prev = None THEN [i \in 1..k |-> img] ELSE prev)
  ELSE <<img>>

\* _get_obs, image branch: self._prev_img = obs[:-1]
NextPrev(obs, prev, k) == IF k # 0 THEN SubSeq(obs, 1, Len(obs) - 1) ELSE prev

\* variant: sine and cosine in each other's place
ObsVectorSwapped(st) == <<Sin(st[1]), Cos(st[1]), st[2]>>

\* _get_obs, vector branch
ObsVector(st) == <<Cos(st[1]), Sin(st[1]), st[2]>>

\* _get_obs on the state st, with the history buffer prev
GetObs(st, prev) ==
  IF image THEN ObsFrames(Render(st, nrender + 1), prev, sliding_window)
  ELSE ObsVector(st)

\* variant: the episode ends when the cost of a step exceeds 1
StepReturnDone(u0, obs, reward) ==
  [op |-> "step", u |-> u0, obs |-> obs, reward |-> reward,
   done |-> (-reward > COST), info |-> <<>>]

\* what step returns: self._get_obs(), -costs, False, {}
StepReturn(u0, obs, reward) ==
  [op |-> "step", u |-> u0, obs |-> obs, reward |-> reward,
   done |-> FALSE, info |-> <<>>]

\* what reset returns: self._get_obs()
ResetReturn(obs) ==
  [op |-> "reset", u |-> 0, obs |-> obs, reward |-> 0,
   done |-> FALSE, info |-> <<>>]

\* variant: the angle is taken as arctan2(cos, sin)
cost_fn_swapped(s, a) ==
  LET th == Arctan2(s[1], s[2])
      thdot == s[3]
  IN ThCost * angle_normalize(th) * angle_normalize(th)
       + ThdotCost * thdot * thdot + UCost * a * a

\* Pendulum.cost_fn on one row s of the batch, with its action a
cost_fn(s, a) ==
  LET cos_th == s[1]
      sin_th == s[2]
      th == Arctan2(sin_th, cos_th)
      thdot == s[3]
  IN ThCost * angle_normalize(th) * angle_normalize(th)
       + ThdotCost * thdot * thdot + UCost * a * a

\* Pendulum.__init__: image False, sliding_window 0 unless given
Configs ==
  {<<FALSE, 0>>} \cup {<<TRUE, k>> : k \in 0..MaxWindow}

\* after GymPendulum.__init__: no state, no frame history, nothing returned
Init ==
  /\ \E c \in Configs : image = c[1] /\ sliding_window = c[2]
  /\ state = None
  /\ last_u = None
  /\ prev_img = None
  /\ nrender = 0
  /\ hist = <<>>
  /\ pre = None
  /\ ret = [op |-> "init", u |-> 0, obs |-> <<>>, reward |-> 0,
            done |-> FALSE, info |-> <<>>]

\* the effects of _get_obs on the viewer and on the frame history
GetObsEffects(st, prev, h) ==
  IF image
  THEN /\ nrender' = nrender + 1
       /\ hist' = Append(h, Render(st, nrender + 1))
       /\ prev_img' = NextPrev(GetObs(st, prev), prev, sliding_window)
  ELSE /\ nrender' = nrender
       /\ hist' = h
       /\ prev_img' = prev

\* reset()
Reset ==
  /\ image => nrender < MaxFrames
  /\ \E s \in ResetStates :
       LET prev == ResetPrev(prev_img, sliding_window)
       IN /\ state' = s
          /\ last_u' = None
          /\ GetObsEffects(s, prev, <<>>)
          /\ ret' = ResetReturn(GetObs(s, prev))
  /\ pre' = None
  /\ UNCHANGED <<image, sliding_window>>

\* step(u0); it needs the state a reset has stored
Step(u0) ==
  /\ state # None
  /\ image => nrender < MaxFrames
  /\ LET th == state[1]
         thdot == state[2]
         u == StepTorque(u0)
         s == StepState(th, thdot, u)
     IN /\ Abs(s[1]) <= MaxTheta
        /\ last_u' = IF ~image THEN <<u>> ELSE last_u
        /\ state' = s
        /\ GetObsEffects(s, prev_img, hist)
        /\ ret' = StepReturn(u0, GetObs(s, prev_img), StepReward(th, thdot, u))
  /\ pre' = state
  /\ UNCHANGED <<image, sliding_window>>

Next ==
  \/ Reset
  \/ \E u0 \in Torques : Step(u0)

Spec == Init /\ [][Next]_vars
(***************************************************************************)
(* Properties                                                              *)
(***************************************************************************)
\* the torque u clamped to the action space [-2, 2]
Clamped(u) == IF u < -2 * TORQUE THEN -2 * TORQUE
              ELSE IF u > 2 * TORQUE THEN 2 * TORQUE ELSE u

\* the last call was a step / a reset
Stepped == ret.op = "step"
WasReset == ret.op = "reset"

\* the velocity the last step computed, before it clipped it
Unclipped == NewThdot(pre[1], pre[2], Clamped(ret.u))

\* C1: after any sequence of reset() and step(u), the stored angular velocity
\* lies in [-max_speed, max_speed] = [-8, 8], and in vector mode it is the
\* third component of the observation returned.
C1_SpeedBounded ==
  state # None =>
    /\ -8 * SPEED <= state[2] /\ state[2] <= 8 * SPEED
    /\ ~image => ret.obs[3] = state[2]

\* C1 witness: a step whose new velocity was beyond 8 and is stored as 8 or -8
C1_Witness ==
  /\ Stepped /\ ~image
  /\ Abs(Unclipped) > 8 * SPEED
  /\ Abs(state[2]) = 8 * SPEED

\* C2: the torque step uses, in the velocity update and in the cost, is the
\* input clamped to [-2, 2]; inputs that clamp to the same value give the
\* same next state and the same reward.
C2_TorqueClamped ==
  Stepped =>
    LET e == Clamped(ret.u)
    IN /\ state[2] = Clip(NewThdot(pre[1], pre[2], e), -max_speed, max_speed)
       /\ ret.reward = -(ThCost * angle_normalize(pre[1]) * angle_normalize(pre[1])
                          + ThdotCost * pre[2] * pre[2] + UCost * e * e)
       /\ \A u2 \in (-(MaxInput + 1) * TORQUE)..((MaxInput + 1) * TORQUE) :
            Clamped(u2) = e =>
              /\ StepState(pre[1], pre[2], StepTorque(u2)) = state
              /\ StepReward(pre[1], pre[2], StepTorque(u2)) = ret.reward

\* C2 witness: a step whose input was beyond the action space
C2_Witness == Stepped /\ Abs(ret.u) > 2 * TORQUE

\* C3: reset() yields theta in [pi-0.01, pi+0.01] and theta_dot in
\* [-0.01, 0.01]; every such state is a possible outcome of reset() whatever
\* the state before the call.
C3_ResetRange ==
  /\ WasReset =>
       /\ 100 * Abs(state[1] - Pi) <= ANGLE
       /\ 100 * Abs(state[2]) <= SPEED
  /\ (image => nrender < MaxFrames) =>
       \A d \in {-1, 0, 1} : ENABLED (Reset /\ state' = <<Pi + d, 0>>)

\* C3 witness: a state that steps have moved far from the reset range, on
\* which reset() yields theta = pi + 0.01
C3_Witness ==
  /\ Stepped /\ Abs(state[1] - Pi) > Pi /\ Abs(state[2]) > SPEED
  /\ ENABLED (Reset /\ state' = <<Pi + 1, 0>>)

\* C4: the reward of step(u) is -cost, with cost = normalize(theta)^2 +
\* 0.1*theta_dot^2 + 0.001*u_clamped^2 on the state held before the update.
C4_RewardOfPreState ==
  Stepped =>
    LET n == angle_normalize(pre[1])
        e == Clamped(ret.u)
    IN ret.reward =
         -( (COST \div (ANGLE * ANGLE)) * n * n
            + (COST \div (10 * SPEED * SPEED)) * pre[2] * pre[2]
            + (COST \div (1000 * TORQUE * TORQUE)) * e * e )

\* C4 witness: step(0) from (theta = pi, theta_dot = 0) returns -(pi^2)
C4_Witness ==
  /\ Stepped /\ ret.u = 0 /\ pre = <<Pi, 0>>
  /\ ret.reward = -(ThCost * Pi * Pi)

\* C5 (as amended): angle_normalize(x) is congruent to x modulo 2*pi and lies in
\* the half-open interval [-pi, pi), so that normalize(pi) = -pi; step stores
\* theta + newthdot*dt as it is, never normalized.
C5_NormalizeRange ==
  state # None =>
    LET n == angle_normalize(state[1])
    IN /\ (n - state[1]) % TwoPi = 0
       /\ -Pi <= n /\ n < Pi
       /\ state[1] = Pi => n = -Pi
       /\ Stepped => state[1] = pre[1] + RoundDiv(Unclipped * ANGLE, SPEED * DtInv)

\* C5 witness: a stored angle more than a turn below zero
C5_Witness == Stepped /\ state[1] < -TwoPi /\ angle_normalize(state[1]) > -Pi

\* C5 as stated: angle_normalize(x) is congruent to x modulo 2*pi and lies in
\* (-pi, pi], so that normalize(pi) = pi.
C5_Original ==
  state # None =>
    LET n == angle_normalize(state[1])
    IN /\ (n - state[1]) % TwoPi = 0
       /\ -Pi < n /\ n <= Pi
       /\ state[1] = Pi => n = Pi

\* the frame rendered j steps after the most recent reset, f_0 for j < 0
FrameAt(j) == hist[(IF j < 0 THEN 0 ELSE j) + 1]

\* C6: in image mode with sliding_window = k >= 1 the observation at point n is
\* the k+1 frames f_n, f_(n-1), ..., f_(n-k), newest first, with f_0 for every
\* index below 0; no frame rendered before the most recent reset is in it, and
\* the stored history holds exactly k frames.
C6_SlidingWindow ==
  (image /\ sliding_window >= 1 /\ (Stepped \/ WasReset)) =>
    LET k == sliding_window
        n == Len(hist) - 1
    IN /\ Len(ret.obs) = k + 1
       /\ \A i \in 1..(k + 1) :
            /\ ret.obs[i] = FrameAt(n - (i - 1))
            /\ ret.obs[i].id > nrender - Len(hist)
       /\ \A j \in 1..Len(hist) : hist[j].id = nrender - Len(hist) + j
       /\ Len(prev_img) = k

\* C6 witness: more than k steps after a reset that was not the first one
C6_Witness ==
  /\ image /\ sliding_window >= 1 /\ Stepped
  /\ Len(hist) > sliding_window + 1
  /\ nrender > Len(hist)

\* C7 (as amended): in vector mode atan2(sin theta, cos theta) of the observation
\* recovers the stored theta modulo 2*pi, as the angle of (-pi, pi] congruent
\* to it, and the third component is the stored theta_dot.
C7_RoundTripModulo ==
  (~image /\ state # None) =>
    LET a == Arctan2(ret.obs[2], ret.obs[1])
    IN /\ (a - state[1]) % TwoPi = 0
       /\ -Pi < a /\ a <= Pi
       /\ ret.obs[3] = state[2]

\* C7 witness: a stored angle beyond pi, observed and recovered a turn lower
C7_Witness ==
  /\ ~image /\ Stepped /\ state[1] > Pi
  /\ Arctan2(ret.obs[2], ret.obs[1]) = state[1] - TwoPi

\* C7 as stated: atan2(sin theta, cos theta) recovers the stored theta within
\* tolerance (one grid step).
C7_Original ==
  (~image /\ state # None) =>
    /\ Abs(Arctan2(ret.obs[2], ret.obs[1]) - state[1]) <= 1
    /\ ret.obs[3] = state[2]

\* C8: every step returns done = False and an empty info mapping.
C8_NeverDone ==
  Stepped => (ret.done = FALSE /\ DOMAIN ret.info = {})

\* C8 witness: a step at the extremes, torque beyond the action space and the
\* velocity clipped
C8_Witness ==
  /\ Stepped /\ Abs(ret.u) > 2 * TORQUE
  /\ Abs(Unclipped) > 8 * SPEED
  /\ ret.done = FALSE

\* C9: for a torque a of the action space [-2, 2], cost_fn on the row
\* (cos theta, sin theta, theta_dot) and a is the cost step(a) charges from
\* (theta, theta_dot), the negation of its reward.
C9_CostFnAgrees ==
  (Stepped /\ Abs(ret.u) <= 2 * TORQUE) =>
    cost_fn(<<Cos(pre[1]), Sin(pre[1]), pre[2]>>, ret.u) = -ret.reward

\* C9 witness: a step with a torque inside the action space from an unwrapped
\* angle outside (-pi, pi]
C9_Witness ==
  /\ Stepped /\ ret.u = 1 /\ pre[1] > TwoPi /\ pre[2] # 0
  /\ cost_fn(<<Cos(pre[1]), Sin(pre[1]), pre[2]>>, ret.u) = -ret.reward

\* C10: step computes v = theta_dot + (-15*sin(theta + pi) + 3*u_clamped)*dt
\* with dt = 0.05, stores theta + v*dt for that v, unclipped and unwrapped,
\* and stores v clipped to [-8, 8].
C10_SemiImplicitEuler ==
  Stepped =>
    LET v == pre[2]
               + RoundDiv((-15 * Sin(pre[1] + Pi) * TORQUE
                            + 3 * Clamped(ret.u) * TRIG) * SPEED,
                          TRIG * TORQUE * 20)
    IN /\ state[1] = pre[1] + RoundDiv(v * ANGLE, SPEED * 20)
       /\ state[2] = (IF v > 8 * SPEED THEN 8 * SPEED
                      ELSE IF v < -8 * SPEED THEN -8 * SPEED ELSE v)

\* C10 witness: a step that clipped the velocity, so that the angle moved by
\* more than dt times the stored velocity
C10_Witness ==
  /\ Stepped /\ Abs(Unclipped) > 8 * SPEED
  /\ state[1] - pre[1] # RoundDiv(state[2] * ANGLE, SPEED * DtInv)
====
